---- MODULE Spec2Model ----
(***************************************************************************)
(* Model of the miniasync DML data mover (src/extras/dml/vdm_dml.c) and of *)
(* the strdup future chain (src/unnamed/part_000).                         *)
(*                                                                         *)
(* Two futures live side by side; each is either a stand-alone memcpy      *)
(* operation future or an alloc-then-copy chain, created over the blocking *)
(* or the asynchronous DML descriptor.  The caller polls them in any       *)
(* order; the DML engine finishes (or corrupts) submitted jobs on its own. *)
(*                                                                         *)
(* Spec is that system.  SpecDirect adds a caller that invokes a           *)
(* descriptor's check function again on a COMPLETE future; SpecLive is the *)
(* busy-polling caller with an engine that finishes every job, under       *)
(* weak fairness, for the liveness property.                               *)
(***************************************************************************)
EXTENDS Integers, Sequences, FiniteSets, TLC

\* ------------------------------------------------------------------ bounds
MaxPolls == 4     \* polls the caller issues per future
MaxLen == 1       \* longest source string (without its terminator)
FlagBits == 2     \* width of the modelled flag word (uint64_t in the code)
MaxRechecks == 1  \* direct calls of a check function after COMPLETE

\* ------------------------------------------------------------- constants
\* libminiasync-dml.h: the one generic flag bit, and the mask of valid bits.
MINIASYNC_DML_F_MEM_DURABLE == 1
MINIASYNC_DML_F_MEM_VALID_FLAGS == MINIASYNC_DML_F_MEM_DURABLE
\* <dml/dml.h> backend bits: two distinct single bits.
DML_FLAG_DST1_DURABLE == 8
DML_FLAG_COPY_ONLY == 16

FUTURE_STATE_IDLE == "NOT_STARTED"
FUTURE_STATE_RUNNING == "RUNNING"
FUTURE_STATE_COMPLETE == "COMPLETE"

DML_STATUS_OK == "DML_STATUS_OK"
DML_STATUS_BEING_PROCESSED == "DML_STATUS_BEING_PROCESSED"
DML_STATUS_JOB_CORRUPTED == "DML_STATUS_JOB_CORRUPTED"
\* what dml_check_job may answer
DmlStatuses == {DML_STATUS_OK, DML_STATUS_BEING_PROCESSED, DML_STATUS_JOB_CORRUPTED}

Ids == {1, 2}
NULL == "NULL"
SrcAddr == "src"
DestAddrs == {"d1", "d2"}
HeapAddrs == <<"h1", "h2">>
Addrs == {SrcAddr} \cup DestAddrs \cup {HeapAddrs[k] : k \in 1..Len(HeapAddrs)}
Chars == {"a"}
NUL == "NUL"
Uninit == "?"

\* --------------------------------------------------------- bit arithmetic
Width == 2 ^ FlagBits

RECURSIVE BitAnd(_, _)
BitAnd(a, b) ==
    IF a = 0 \/ b = 0 THEN 0
    ELSE (a % 2) * (b % 2) + 2 * BitAnd(a \div 2, b \div 2)

RECURSIVE BitOr(_, _)
BitOr(a, b) ==
    IF a = 0 THEN b
    ELSE IF b = 0 THEN a
    ELSE (IF a % 2 = 1 \/ b % 2 = 1 THEN 1 ELSE 0) + 2 * BitOr(a \div 2, b \div 2)

\* ~a and a << 1 in the modelled width
BitNot(a) == (Width - 1) - a
Shl1(a) == (a * 2) % Width

\* ------------------------------------------------------------------ memory
\* the C strings of at most MaxLen characters, with their terminator
RECURSIVE SeqsUpTo(_)
SeqsUpTo(k) ==
    IF k = 0 THEN {<<>>}
    ELSE LET shorter == SeqsUpTo(k - 1)
         IN  shorter \cup {Append(s, c) : s \in {t \in shorter : Len(t) = k - 1}, c \in Chars}

Strings == {s \o <<NUL>> : s \in SeqsUpTo(MaxLen)}

Fresh(n) == [k \in 1..n |-> Uninit]

\* strlen: scan to the terminator
RECURSIVE strlenFrom(_, _)
strlenFrom(buf, k) ==
    IF k > Len(buf) \/ buf[k] = NUL THEN k - 1 ELSE strlenFrom(buf, k + 1)

strlen(m, p) == strlenFrom(m[p], 1)

ValidRange(m, p, n) == p \in DOMAIN m /\ n <= Len(m[p])

\* the engine's DML_OP_MEM_MOVE: n bytes from src to dest
MemMove(m, dest, src, n) ==
    [m EXCEPT ![dest] = [k \in 1..Len(m[dest]) |->
                            IF k <= n THEN m[src][k] ELSE m[dest][k]]]

\* malloc: the first free heap block
FreeBlocks(heap) == {k \in 1..Len(HeapAddrs) : HeapAddrs[k] \notin heap}
malloc(heap) ==
    LET k == CHOOSE x \in FreeBlocks(heap) : \A y \in FreeBlocks(heap) : x <= y
    IN  HeapAddrs[k]

\* ------------------------------------------------------ flag translation
RECURSIVE TranslateLoop(_, _, _)
TranslateLoop(flags, iflag, tflags) ==
    IF ~(flags > 0) THEN [fatal |-> FALSE, val |-> tflags]
    ELSE IF BitAnd(flags, iflag) = 0
         THEN TranslateLoop(flags, Shl1(iflag), tflags)
    ELSE IF iflag = MINIASYNC_DML_F_MEM_DURABLE
         THEN TranslateLoop(BitAnd(flags, BitNot(iflag)), Shl1(iflag),
                            BitOr(tflags, DML_FLAG_DST1_DURABLE))
    ELSE [fatal |-> TRUE, val |-> 0]

\* a plausible slip: the leading assertion is missing and the switch ignores
\* bits it does not know
RECURSIVE TranslateLoopLax(_, _, _)
TranslateLoopLax(flags, iflag, tflags) ==
    IF ~(flags > 0) THEN [fatal |-> FALSE, val |-> tflags]
    ELSE IF BitAnd(flags, iflag) = 0
         THEN TranslateLoopLax(flags, Shl1(iflag), tflags)
    ELSE TranslateLoopLax(BitAnd(flags, BitNot(iflag)), Shl1(iflag),
                          IF iflag = MINIASYNC_DML_F_MEM_DURABLE
                          THEN BitOr(tflags, DML_FLAG_DST1_DURABLE) ELSE tflags)

vdm_dml_translate_flags_lax(flags) == TranslateLoopLax(flags, 1, 0)

vdm_dml_translate_flags(flags) ==
    IF BitAnd(flags, BitNot(MINIASYNC_DML_F_MEM_VALID_FLAGS)) # 0
    THEN [fatal |-> TRUE, val |-> 0]
    ELSE TranslateLoop(flags, 1, 0)

\* ---------------------------------------------------------- the DML job
\* The job object an operation future allocates.  live: allocated and not yet
\* freed; status: what the engine has done with it.
NoJob == [live |-> FALSE, status |-> "none", src |-> NULL, dest |-> NULL,
          n |-> 0, flags |-> 0]

\* A world is what one call can touch: the future o it runs on, the memory,
\* the heap, and whether an assertion has ended the process (ab).
Fatal(w) == [w EXCEPT !.ab = TRUE]

\* ghost: the order in which things happen to a future
Note(w, ev, link, val) ==
    [w EXCEPT !.o.log = Append(@, [ev |-> ev, link |-> link, val |-> val])]

\* ghost: one more call of a check function, what it saw and what it returned,
\* whether the handle it found referred to a job that was allocated and not
\* yet freed, and what state the future was in
Checked(w, status, ret) ==
    [w EXCEPT !.o.checks =
         Append(@, [st |-> status, ret |-> ret,
                    live |-> w.o.copy.extra # NULL /\ w.o.job.live,
                    state |-> w.o.copy.state])]

Returned(w, status, ret) == [w |-> Checked(w, status, ret), ret |-> ret]

vdm_dml_memcpy_job_new(dest, src, n, flags) ==
    [live |-> TRUE, status |-> "init", src |-> src, dest |-> dest, n |-> n,
     flags |-> BitOr(DML_FLAG_COPY_ONLY, flags)]

\* dml_finalize_job + free; rels records each release with the number of checks
\* made so far (0: inside the start call) and the poll it happened in
vdm_dml_memcpy_job_delete(w) ==
    [w EXCEPT !.o.job.live = FALSE,
              !.o.rels = Append(@, [at |-> Len(w.o.checks), poll |-> w.o.polls])]

\* dml_execute_job: the engine runs the move before it returns; a job whose
\* addresses are no buffers fails, and the assertion on its status is fatal
vdm_dml_memcpy_job_execute(w) ==
    IF ValidRange(w.mem, w.o.job.dest, w.o.job.n)
       /\ ValidRange(w.mem, w.o.job.src, w.o.job.n)
    THEN [w |-> [w EXCEPT !.mem = MemMove(w.mem, w.o.job.dest, w.o.job.src,
                                          w.o.job.n),
                          !.o.job.status = "done"],
          ret |-> w.o.job.dest]
    ELSE [w |-> Fatal(w), ret |-> NULL]

\* a plausible slip: the source pointer is returned instead of the destination
vdm_dml_memcpy_job_submit_src(w) ==
    [w |-> [w EXCEPT !.o.job.status = "submitted"], ret |-> w.o.job.src]

\* dml_submit_job: the job is queued; the engine works on it later
vdm_dml_memcpy_job_submit(w) ==
    [w |-> [w EXCEPT !.o.job.status = "submitted"], ret |-> w.o.job.dest]

\* dml_check_job on the job a handle refers to.  A handle that is NULL or
\* refers to a freed job reads released memory: any status may come back (ub).
dml_check_job(w, handle, ub) ==
    IF handle = NULL \/ ~w.o.job.live THEN ub
    ELSE IF w.o.job.status = "done" THEN DML_STATUS_OK
    ELSE IF w.o.job.status = "corrupted" THEN DML_STATUS_JOB_CORRUPTED
    ELSE DML_STATUS_BEING_PROCESSED

\* vdm_cb: the completion callback the vdm installs in the future's data
vdm_cb(w) == [w EXCEPT !.o.copy.complete = 1]

vdm_dml_check(w) ==
    Returned(w, "flag", IF w.o.copy.complete # 0 THEN FUTURE_STATE_COMPLETE
                        ELSE FUTURE_STATE_RUNNING)

\* vdm_dml_check_delete_job once dml_check_job has answered status
check_delete_job_on(w, status) ==
    IF status = DML_STATUS_JOB_CORRUPTED
    THEN [w |-> Fatal(Checked(w, status, "fatal")), ret |-> "fatal"]
    ELSE IF status = DML_STATUS_OK
    THEN [w |-> vdm_dml_memcpy_job_delete(Checked(w, status, FUTURE_STATE_COMPLETE)),
          ret |-> FUTURE_STATE_COMPLETE]
    ELSE Returned(w, status, FUTURE_STATE_RUNNING)

\* a plausible slip: the job is released on every check, finished or not
check_delete_job_always(w, status) ==
    IF status = DML_STATUS_JOB_CORRUPTED
    THEN [w |-> Fatal(Checked(w, status, "fatal")), ret |-> "fatal"]
    ELSE [w |-> vdm_dml_memcpy_job_delete(
                    Checked(w, status, IF status = DML_STATUS_OK
                                       THEN FUTURE_STATE_COMPLETE
                                       ELSE FUTURE_STATE_RUNNING)),
          ret |-> IF status = DML_STATUS_OK THEN FUTURE_STATE_COMPLETE
                  ELSE FUTURE_STATE_RUNNING]

\* a plausible slip: the assertion on the status is missing, and a corrupted
\* job is taken for one that is not finished yet
check_delete_job_lenient(w, status) ==
    IF status = DML_STATUS_OK
    THEN [w |-> vdm_dml_memcpy_job_delete(Checked(w, status, FUTURE_STATE_COMPLETE)),
          ret |-> FUTURE_STATE_COMPLETE]
    ELSE Returned(w, status, FUTURE_STATE_RUNNING)

vdm_dml_check_delete_job_lenient(w, ub) ==
    check_delete_job_lenient(w, dml_check_job(w, w.o.copy.extra, ub))

\* a plausible slip: COMPLETE is reported but the job is not deleted
check_delete_job_leak(w, status) ==
    IF status = DML_STATUS_JOB_CORRUPTED
    THEN [w |-> Fatal(Checked(w, status, "fatal")), ret |-> "fatal"]
    ELSE Returned(w, status, IF status = DML_STATUS_OK
                             THEN FUTURE_STATE_COMPLETE
                             ELSE FUTURE_STATE_RUNNING)

vdm_dml_check_delete_job_leak(w, ub) ==
    check_delete_job_leak(w, dml_check_job(w, w.o.copy.extra, ub))

vdm_dml_check_delete_job_eager(w, ub) ==
    check_delete_job_always(w, dml_check_job(w, w.o.copy.extra, ub))

vdm_dml_check_delete_job(w, ub) ==
    check_delete_job_on(w, dml_check_job(w, w.o.copy.extra, ub))

\* ghost: what vdm_dml_translate_flags answered for this future
Translated(w, t) ==
    [w EXCEPT !.o.tflags = [called |-> TRUE, fatal |-> t.fatal, val |-> t.val]]

\* the start call from vdm_dml_memcpy_job_new on, the flags translated to tflags
WithJob(w, tflags) ==
    Note([w EXCEPT !.o.job = vdm_dml_memcpy_job_new(w.o.copy.dest, w.o.copy.src,
                                                    w.o.copy.n, tflags)],
         "start", "copy", w.o.copy.dest)

\* vdm_dml_memcpy_sync after the job has been executed (e: world and result)
sync_executed(e) ==
    IF e.w.ab THEN e.w
    ELSE vdm_cb(vdm_dml_memcpy_job_delete([e.w EXCEPT !.o.copy.out = e.ret]))

sync_translated(w, t) ==
    IF t.fatal THEN Fatal(w)
    ELSE sync_executed(vdm_dml_memcpy_job_execute(WithJob(w, t.val)))

\* a plausible slip: the job is stashed in the handle slot, as the
\* asynchronous start does
sync_translated_stash(w, t) ==
    IF t.fatal THEN Fatal(w)
    ELSE sync_executed(vdm_dml_memcpy_job_execute(
             [WithJob(w, t.val) EXCEPT !.o.copy.extra = "job"]))

vdm_dml_memcpy_sync_stash(w) ==
    sync_translated_stash(Translated(w, vdm_dml_translate_flags(w.o.copy.flags)),
                          vdm_dml_translate_flags(w.o.copy.flags))

\* a plausible slip: the completion callback is not called
sync_executed_nocb(e) ==
    IF e.w.ab THEN e.w
    ELSE vdm_dml_memcpy_job_delete([e.w EXCEPT !.o.copy.out = e.ret])

sync_translated_nocb(w, t) ==
    IF t.fatal THEN Fatal(w)
    ELSE sync_executed_nocb(vdm_dml_memcpy_job_execute(WithJob(w, t.val)))

vdm_dml_memcpy_sync_nocb(w) ==
    sync_translated_nocb(Translated(w, vdm_dml_translate_flags(w.o.copy.flags)),
                         vdm_dml_translate_flags(w.o.copy.flags))

vdm_dml_memcpy_sync(w) ==
    sync_translated(Translated(w, vdm_dml_translate_flags(w.o.copy.flags)),
                    vdm_dml_translate_flags(w.o.copy.flags))

\* vdm_dml_memcpy_async after the job has been submitted
async_submitted(s) == [s.w EXCEPT !.o.copy.out = s.ret]

async_translated(w, t) ==
    IF t.fatal THEN Fatal(w)
    ELSE async_submitted(vdm_dml_memcpy_job_submit(
             [WithJob(w, t.val) EXCEPT !.o.copy.extra = "job"]))

\* a plausible slip: the job is submitted but not stored in the handle slot
async_translated_nohandle(w, t) ==
    IF t.fatal THEN Fatal(w)
    ELSE async_submitted(vdm_dml_memcpy_job_submit(WithJob(w, t.val)))

vdm_dml_memcpy_async_nohandle(w) ==
    async_translated_nohandle(
        Translated(w, vdm_dml_translate_flags(w.o.copy.flags)),
        vdm_dml_translate_flags(w.o.copy.flags))

\* a plausible slip: the translated flags are stored back over the caller's
async_translated_writeback(w, t) ==
    IF t.fatal THEN Fatal(w)
    ELSE async_submitted(vdm_dml_memcpy_job_submit(
             [WithJob(w, t.val) EXCEPT !.o.copy.extra = "job",
                                       !.o.copy.flags = t.val]))

vdm_dml_memcpy_async_writeback(w) ==
    async_translated_writeback(
        Translated(w, vdm_dml_translate_flags(w.o.copy.flags)),
        vdm_dml_translate_flags(w.o.copy.flags))

vdm_dml_memcpy_async(w) ==
    async_translated(Translated(w, vdm_dml_translate_flags(w.o.copy.flags)),
                     vdm_dml_translate_flags(w.o.copy.flags))

\* the two descriptors: which start and which check function a vdm uses
dml_synchronous_descriptor ==
    [memcpy |-> "vdm_dml_memcpy_sync", check |-> "vdm_dml_check"]

dml_asynchronous_descriptor ==
    [memcpy |-> "vdm_dml_memcpy_async", check |-> "vdm_dml_check_delete_job"]

vdm_descriptor_dml == dml_synchronous_descriptor
vdm_descriptor_dml_async == dml_asynchronous_descriptor

Descriptors == {vdm_descriptor_dml, vdm_descriptor_dml_async}

descriptor_memcpy(d, w) ==
    IF d.memcpy = "vdm_dml_memcpy_sync" THEN vdm_dml_memcpy_sync(w)
    ELSE vdm_dml_memcpy_async(w)

descriptor_check(d, w, ub) ==
    IF d.check = "vdm_dml_check" THEN vdm_dml_check(w)
    ELSE vdm_dml_check_delete_job(w, ub)

\* ------------------------------------------------ futures (libminiasync)
\* a plausible slip: the task is run again although the future is COMPLETE
future_poll_always(state, w, r) == r

\* future_poll: a future that is COMPLETE is not run again; otherwise its task
\* runs (r is the task's outcome on w) and its result is the new state
future_poll(state, w, r) ==
    IF state # FUTURE_STATE_COMPLETE THEN r ELSE [w |-> w, ret |-> state]

NoVdm == [memcpy |-> NULL, check |-> NULL]

\* a zero-filled operation future (the slot of a lazy entry before its
\* initializer has run)
ZeroOp ==
    [state |-> FUTURE_STATE_IDLE, vdm |-> NoVdm, dest |-> NULL, src |-> NULL,
     n |-> 0, flags |-> 0, extra |-> NULL, complete |-> 0, out |-> NULL]

\* vdm_memcpy: a memcpy operation future over a vdm, not yet started
vdm_memcpy(vdm, dest, src, n, flags) ==
    [state |-> FUTURE_STATE_IDLE, vdm |-> vdm, dest |-> dest, src |-> src,
     n |-> n, flags |-> flags, extra |-> NULL, complete |-> 0, out |-> NULL]

\* the task of an operation future once it has been started (w1)
impl_check(d, w1, ub) ==
    IF w1.ab THEN [w |-> w1, ret |-> "fatal"] ELSE descriptor_check(d, w1, ub)

\* the task of an operation future: start it on its first run, then check it
vdm_memcpy_impl(w, ub) ==
    impl_check(w.o.copy.vdm,
               IF w.o.copy.state = FUTURE_STATE_IDLE
               THEN descriptor_memcpy(w.o.copy.vdm, w) ELSE w,
               ub)

\* ------------------------------------------------------- the strdup chain
\* alloc_impl with the block malloc returned
alloc_at(w, p) ==
    [w |-> [w EXCEPT !.o.alloc.ptr = p,
                     !.heap = @ \cup {p},
                     !.mem[p] = Fresh(w.o.alloc.n)],
     ret |-> FUTURE_STATE_COMPLETE]

\* alloc_impl: the allocation step; completes on its first run
alloc_impl(w) == alloc_at(w, malloc(w.heap))

async_alloc(size) == [state |-> FUTURE_STATE_IDLE, n |-> size, ptr |-> NULL]

\* a plausible slip: the first entry is declared as the last one
strdup_data_alloc_last ==
    <<[name |-> "alloc", last |-> TRUE], [name |-> "copy", last |-> TRUE]>>

\* struct strdup_data: the chain's entries in order, the last one marked
strdup_data ==
    <<[name |-> "alloc", last |-> FALSE], [name |-> "copy", last |-> TRUE]>>

\* a plausible slip: the mapping forgets to hand the pointer over
strdup_map_alloc_to_copy_skip(w, rhs) == w

\* a plausible slip: the mapping of the first entry also publishes the pointer
\* as the chain's result
strdup_map_alloc_to_copy_publish(w, rhs) ==
    IF rhs = "copy"
    THEN [w EXCEPT !.o.copy.dest = w.o.alloc.ptr, !.o.out.ptr = w.o.alloc.ptr]
    ELSE w

strdup_map_alloc_to_copy(w, rhs) ==
    IF rhs = "copy" THEN [w EXCEPT !.o.copy.dest = w.o.alloc.ptr] ELSE w

strdup_map_copy_to_output(w, rhs) ==
    IF rhs = "chain"
    THEN [w EXCEPT !.o.out = [ptr |-> w.o.copy.dest, length |-> w.o.copy.n]]
    ELSE w

strdup_init(w, vdm) ==
    Note([w EXCEPT !.o.copy =
              vdm_memcpy(vdm, w.o.alloc.ptr, w.o.src, w.o.length, 0)],
         "init", "copy", w.o.alloc.ptr)

NoEntry == [map |-> NULL, init |-> NULL, arg |-> NoVdm]

\* struct strdup_fut fut = {0}, and the ghost history of the future
ZeroFut ==
    [kind |-> "chain", lazy |-> FALSE,
     state |-> FUTURE_STATE_IDLE, cur |-> 1,
     out |-> [ptr |-> NULL, length |-> 0], src |-> NULL, length |-> 0,
     alloc |-> async_alloc(0), copy |-> ZeroOp,
     entry |-> [alloc |-> NoEntry, copy |-> NoEntry],
     job |-> NoJob,
     log |-> <<>>, polls |-> 0, doneAt |-> 0, lastRet |-> "none",
     checks |-> <<>>, rels |-> <<>>,
     tflags |-> [called |-> FALSE, fatal |-> FALSE, val |-> 0]]

\* a plausible slip: the first entry is set up without its mapping function
strdup_of_nomap(vdm, s, len) ==
    [ZeroFut EXCEPT
       !.alloc = async_alloc(len),
       !.copy = vdm_memcpy(vdm, NULL, s, len, 0),
       !.entry.copy = [map |-> "strdup_map_copy_to_output", init |-> NULL,
                       arg |-> NoVdm]]

\* a plausible slip: the last entry is set up without its mapping function
strdup_of_nooutput(vdm, s, len) ==
    [ZeroFut EXCEPT
       !.alloc = async_alloc(len),
       !.entry.alloc = [map |-> "strdup_map_alloc_to_copy", init |-> NULL,
                        arg |-> NoVdm],
       !.copy = vdm_memcpy(vdm, NULL, s, len, 0)]

\* async_strdup with len = strlen(s) + 1
strdup_of(vdm, s, len) ==
    [ZeroFut EXCEPT
       !.alloc = async_alloc(len),
       !.entry.alloc = [map |-> "strdup_map_alloc_to_copy", init |-> NULL,
                        arg |-> NoVdm],
       !.copy = vdm_memcpy(vdm, NULL, s, len, 0),
       !.entry.copy = [map |-> "strdup_map_copy_to_output", init |-> NULL,
                       arg |-> NoVdm]]

async_strdup(m, vdm, s) == strdup_of(vdm, s, strlen(m, s) + 1)

\* async_lazy_strdup with fut.data.length = len
lazy_strdup_of(vdm, s, len) ==
    [ZeroFut EXCEPT
       !.lazy = TRUE,
       !.src = s,
       !.length = len,
       !.alloc = async_alloc(len),
       !.entry.alloc = [map |-> "strdup_map_alloc_to_copy", init |-> NULL,
                        arg |-> NoVdm],
       !.entry.copy = [map |-> "strdup_map_copy_to_output",
                       init |-> "strdup_init", arg |-> vdm]]

\* a plausible slip: the terminator is not counted
async_lazy_strdup_short(m, vdm, s) == lazy_strdup_of(vdm, s, strlen(m, s))

\* a plausible slip: the copy step is built when the chain is built, before
\* there is a buffer to copy to
async_lazy_strdup_now(m, vdm, s) ==
    [lazy_strdup_of(vdm, s, strlen(m, s) + 1) EXCEPT
       !.copy = vdm_memcpy(vdm, NULL, s, strlen(m, s) + 1, 0),
       !.log = <<[ev |-> "init", link |-> "copy", val |-> NULL]>>,
       !.entry.copy.init = NULL]

async_lazy_strdup(m, vdm, s) == lazy_strdup_of(vdm, s, strlen(m, s) + 1)

\* a stand-alone operation future: only its copy part is used
OpFut(vdm, dest, src, n, flags) ==
    [ZeroFut EXCEPT !.kind = "op", !.copy = vdm_memcpy(vdm, dest, src, n, flags)]

\* ------------------------------------------------------ the chain driver
SubState(o, name) == IF name = "alloc" THEN o.alloc.state ELSE o.copy.state

CurEntry(w) == strdup_data[w.o.cur]
\* where the current entry's mapping writes: the next entry, or the chain
MapTarget(w) ==
    IF CurEntry(w).last THEN "chain" ELSE strdup_data[w.o.cur + 1].name

\* future_poll stores the task's result r as the state of sub-future name
EntrySet(name, r) ==
    IF r.w.ab THEN r
    ELSE IF name = "alloc"
    THEN [w |-> Note([r.w EXCEPT !.o.alloc.state = r.ret], r.ret, name, NULL),
          ret |-> r.ret]
    ELSE [w |-> Note([r.w EXCEPT !.o.copy.state = r.ret], r.ret, name, NULL),
          ret |-> r.ret]

\* future_poll of one entry's sub-future
EntryPoll(w, name, ub) ==
    EntrySet(name,
             IF name = "alloc"
             THEN future_poll(w.o.alloc.state, w, alloc_impl(w))
             ELSE future_poll(w.o.copy.state, w, vdm_memcpy_impl(w, ub)))

\* the entry's mapping function, from the entry's context to rhs
EntryMap(w, name, rhs) ==
    IF w.o.entry[name].map = "strdup_map_alloc_to_copy"
    THEN strdup_map_alloc_to_copy(Note(w, "map", name, rhs), rhs)
    ELSE IF w.o.entry[name].map = "strdup_map_copy_to_output"
    THEN strdup_map_copy_to_output(Note(w, "map", name, rhs), rhs)
    ELSE w

\* the lazy initializer of entry name, if it has one; it is dropped once run
EntryInit(w, name) ==
    IF w.o.entry[name].init = "strdup_init"
    THEN [strdup_init(w, w.o.entry[name].arg) EXCEPT !.o.entry[name].init = NULL]
    ELSE w

\* the current link has completed: its mapping runs, then a lazy next link
\* is initialized, and the chain moves on
Advance(w) ==
    IF CurEntry(w).last
    THEN EntryMap(w, CurEntry(w).name, "chain")
    ELSE [EntryInit(EntryMap(w, CurEntry(w).name, MapTarget(w)), MapTarget(w))
          EXCEPT !.o.cur = @ + 1]

\* The chain's task.  COMPLETE when the last link is; else poll the current
\* link: RUNNING is passed on; on COMPLETE the link's mapping runs (towards
\* the next link, or towards the chain itself after the last link), a lazy
\* next link is initialized, and the next link is polled in the same call.
RECURSIVE async_chain_impl(_, _)
RECURSIVE chain_polled(_, _, _)
chain_polled(last, p, ub) ==
    IF p.w.ab THEN p
    ELSE IF p.ret # FUTURE_STATE_COMPLETE
    THEN [w |-> p.w, ret |-> FUTURE_STATE_RUNNING]
    ELSE IF last THEN [w |-> Advance(p.w), ret |-> FUTURE_STATE_COMPLETE]
    ELSE async_chain_impl(Advance(p.w), ub)

async_chain_impl(w, ub) ==
    IF CurEntry(w).last /\ SubState(w.o, CurEntry(w).name) = FUTURE_STATE_COMPLETE
    THEN [w |-> w, ret |-> FUTURE_STATE_COMPLETE]
    ELSE chain_polled(CurEntry(w).last,
                      EntryPoll(Note(w, "poll", CurEntry(w).name, NULL),
                                CurEntry(w).name, ub),
                      ub)

\* future_poll stores the task's result r as the state of the top-level future
TopSet(kind, r) ==
    IF r.w.ab THEN r
    ELSE IF kind = "op"
    THEN [w |-> [r.w EXCEPT !.o.copy.state = r.ret], ret |-> r.ret]
    ELSE [w |-> [r.w EXCEPT !.o.state = r.ret], ret |-> r.ret]

\* future_poll of the top-level future: the operation itself, or the chain
TopPoll(w, ub) ==
    TopSet(w.o.kind,
           IF w.o.kind = "op"
           THEN future_poll(w.o.copy.state, w, vdm_memcpy_impl(w, ub))
           ELSE future_poll(w.o.state, w, async_chain_impl(w, ub)))

TopState(o) == IF o.kind = "op" THEN o.copy.state ELSE o.state
TopOut(o) == IF o.kind = "op" THEN [ptr |-> o.copy.out, length |-> 0] ELSE o.out

\* ---------------------------------------------------------------- state
VARIABLES
    fut,      \* the two futures, with their jobs and ghost histories
    mem,      \* address -> bytes of the buffer there
    heap,     \* the blocks malloc has handed out
    aborted   \* an assertion has ended the process

vars == <<fut, mem, heap, aborted>>

Kinds == {"op", "eager", "lazy"}

\* what main() of a test builds: the source string, then the futures
NewFut(m, kind, vdm, dest, flags) ==
    IF kind = "op" THEN OpFut(vdm, dest, SrcAddr, strlen(m, SrcAddr) + 1, flags)
    ELSE IF kind = "eager" THEN async_strdup(m, vdm, SrcAddr)
    ELSE async_lazy_strdup(m, vdm, SrcAddr)

InitMem(s) ==
    [a \in Addrs |-> IF a = SrcAddr THEN s
                     ELSE IF a \in DestAddrs THEN Fresh(MaxLen + 1)
                     ELSE <<>>]

Init ==
    /\ \E s \in Strings, dest \in DestAddrs, flags \in 0..(Width - 1),
          kind \in [Ids -> Kinds], vdm \in [Ids -> Descriptors] :
         /\ mem = InitMem(s)
         /\ fut = [i \in Ids |-> NewFut(InitMem(s), kind[i], vdm[i], dest, flags)]
    /\ heap = {}
    /\ aborted = FALSE

\* ghost: the poll's return value, and the poll that first returned COMPLETE
Polled(r) ==
    [r.w.o EXCEPT !.lastRet = r.ret,
                  !.doneAt = IF @ = 0 /\ r.ret = FUTURE_STATE_COMPLETE
                             THEN r.w.o.polls ELSE @]

PollDone(i, r) ==
    /\ fut' = [fut EXCEPT ![i] = Polled(r)]
    /\ mem' = r.w.mem
    /\ heap' = r.w.heap
    /\ aborted' = r.w.ab

\* What a read of released job memory may give in a poll of o.  Only
\* vdm_dml_check_delete_job reads the job, and a poll that starts the future
\* checks the live job it has just submitted; so the choice is open only for
\* a started future whose job is no longer live.
UbOutcomes(o) ==
    IF /\ o.copy.vdm.check = "vdm_dml_check_delete_job"
       /\ o.copy.state # FUTURE_STATE_IDLE
       /\ ~o.job.live
    THEN DmlStatuses
    ELSE {DML_STATUS_BEING_PROCESSED}

\* the caller polls future i once more
Poll(i) ==
    /\ ~aborted
    /\ fut[i].polls < MaxPolls
    /\ \E ub \in UbOutcomes(fut[i]) :
         PollDone(i, TopPoll([o |-> [fut[i] EXCEPT !.polls = @ + 1],
                              mem |-> mem, heap |-> heap, ab |-> FALSE], ub))

\* the engine finishes the submitted job of future i: the bytes are moved
EngineComplete(i) ==
    /\ ~aborted
    /\ fut[i].job.live
    /\ fut[i].job.status = "submitted"
    /\ ValidRange(mem, fut[i].job.dest, fut[i].job.n)
    /\ ValidRange(mem, fut[i].job.src, fut[i].job.n)
    /\ mem' = MemMove(mem, fut[i].job.dest, fut[i].job.src, fut[i].job.n)
    /\ fut' = [fut EXCEPT ![i].job.status = "done"]
    /\ UNCHANGED <<heap, aborted>>

\* the engine finds the submitted job of future i corrupted
EngineCorrupt(i) ==
    /\ ~aborted
    /\ fut[i].job.live
    /\ fut[i].job.status = "submitted"
    /\ fut' = [fut EXCEPT ![i].job.status = "corrupted"]
    /\ UNCHANGED <<mem, heap, aborted>>

Next ==
    \/ \E i \in Ids : Poll(i)
    \/ \E i \in Ids : EngineComplete(i)
    \/ \E i \in Ids : EngineCorrupt(i)

Spec == Init /\ [][Next]_vars

\* The same system with a caller that also uses the descriptor's check
\* function by itself: once future i is COMPLETE its check function is called
\* again, not through future_poll, at most MaxRechecks times.
RecheckDone(i, r) ==
    /\ fut' = [fut EXCEPT ![i] = r.w.o]
    /\ mem' = r.w.mem
    /\ heap' = r.w.heap
    /\ aborted' = r.w.ab

Recheck(i) ==
    /\ ~aborted
    /\ fut[i].copy.state = FUTURE_STATE_COMPLETE
    /\ Len(fut[i].checks) < fut[i].doneAt + MaxRechecks
    /\ \E ub \in UbOutcomes(fut[i]) :
         RecheckDone(i, descriptor_check(fut[i].copy.vdm,
                                         [o |-> fut[i], mem |-> mem,
                                          heap |-> heap, ab |-> FALSE], ub))

NextDirect ==
    \/ Next
    \/ \E i \in Ids : Recheck(i)

SpecDirect == Init /\ [][NextDirect]_vars

\* The system of the liveness claim: the caller busy-polls each future until
\* it is COMPLETE (FUTURE_BUSY_POLL), and the engine finishes every job it
\* was given and corrupts none.  Polls are counted up to MaxPolls, so the
\* caller's poll number MaxPolls is one that finds the job finished: the
\* model follows the runs with fewer than MaxPolls polls that return RUNNING.
Polling(i) ==
    /\ ~aborted
    /\ TopState(fut[i]) # FUTURE_STATE_COMPLETE
    /\ fut[i].polls < MaxPolls
    /\ fut[i].polls + 1 < MaxPolls \/ fut[i].job.status = "done"

BusyPoll(i) == Polling(i) /\ Poll(i)

NextLive ==
    \/ \E i \in Ids : BusyPoll(i)
    \/ \E i \in Ids : EngineComplete(i)

\* Weak fairness of the engine finishing a job, and of the caller's loop:
\* a poll of future i can be made exactly when Polling(i) holds, so the
\* second disjunction is WF_vars(BusyPoll(i)) with its ENABLED written out.
SpecLive ==
    /\ Init
    /\ [][NextLive]_vars
    /\ \A i \in Ids : WF_vars(EngineComplete(i))
    /\ \A i \in Ids : []<>(~Polling(i)) \/ []<><<BusyPoll(i)>>_vars

\* ------------------------------------------------------------ properties
IsChain(o) == o.kind = "chain"
IsAsync(o) == o.copy.vdm = vdm_descriptor_dml_async \/
              (o.entry.copy.init # NULL /\ o.entry.copy.arg = vdm_descriptor_dml_async)
\* the places of an event in a future's history
Pos(o, ev, link) ==
    {k \in 1..Len(o.log) : o.log[k].ev = ev /\ o.log[k].link = link}
Before(S, T) == \A b \in T : \E a \in S : a < b

\* C1 (idempotent completion): a future that is COMPLETE stays COMPLETE, keeps
\* its Output, and every later poll of it returns COMPLETE; this holds for the
\* top-level future and for the sub-futures of a chain.
C1_IdempotentCompletion ==
    [][\A i \in Ids :
         /\ TopState(fut[i]) = FUTURE_STATE_COMPLETE =>
              /\ TopState(fut'[i]) = FUTURE_STATE_COMPLETE
              /\ TopOut(fut'[i]) = TopOut(fut[i])
              /\ fut'[i].polls > fut[i].polls =>
                   fut'[i].lastRet = FUTURE_STATE_COMPLETE
         /\ fut[i].copy.state = FUTURE_STATE_COMPLETE =>
              /\ fut'[i].copy.state = FUTURE_STATE_COMPLETE
              /\ fut'[i].copy.out = fut[i].copy.out
         /\ fut[i].alloc.state = FUTURE_STATE_COMPLETE =>
              /\ fut'[i].alloc.state = FUTURE_STATE_COMPLETE
              /\ fut'[i].alloc.ptr = fut[i].alloc.ptr]_vars

\* an asynchronous future and a chain, each polled twice more after COMPLETE
C1_Witness ==
    /\ ~aborted
    /\ \E i \in Ids :
         /\ fut[i].kind = "op" /\ IsAsync(fut[i])
         /\ fut[i].copy.state = FUTURE_STATE_COMPLETE
         /\ fut[i].polls >= fut[i].doneAt + 2
         /\ fut[i].lastRet = FUTURE_STATE_COMPLETE
    /\ \E i \in Ids :
         /\ IsChain(fut[i])
         /\ fut[i].state = FUTURE_STATE_COMPLETE
         /\ fut[i].polls >= fut[i].doneAt + 2

\* the check in which the engine first reported success
FirstOk(cs) ==
    CHOOSE k \in 1..Len(cs) :
        cs[k].st = DML_STATUS_OK /\ \A j \in 1..(k - 1) : cs[j].st # DML_STATUS_OK
SawOk(cs) == \E k \in 1..Len(cs) : cs[k].st = DML_STATUS_OK

C3_NoPrematureOutput ==
    \A i \in Ids :
        (IsAsync(fut[i]) /\ fut[i].copy.state = FUTURE_STATE_RUNNING) =>
            fut[i].copy.out = vdm_memcpy(fut[i].copy.vdm, fut[i].copy.dest,
                                         fut[i].copy.src, fut[i].copy.n,
                                         fut[i].copy.flags).out

\* C4 (chain ordering barrier): in a chain's history the mapping of the alloc
\* link comes after that link's sub-future completed, and every poll and the
\* start of the copy link's sub-future come after that mapping; the copy link
\* is never polled while the alloc link is not COMPLETE.
C4_ChainOrderingBarrier ==
    \A i \in Ids :
        IsChain(fut[i]) =>
            /\ Before(Pos(fut[i], FUTURE_STATE_COMPLETE, "alloc"),
                      Pos(fut[i], "map", "alloc"))
            /\ Before(Pos(fut[i], "map", "alloc"),
                      Pos(fut[i], "poll", "copy") \cup Pos(fut[i], "start", "copy"))
            /\ Pos(fut[i], "poll", "copy") # {} =>
                   fut[i].alloc.state = FUTURE_STATE_COMPLETE

\* a chain whose copy link has been started
C4_Witness ==
    \E i \in Ids :
        /\ IsChain(fut[i])
        /\ Pos(fut[i], "map", "alloc") # {}
        /\ Pos(fut[i], "start", "copy") # {}

\* C5 (lazy deferral): the initializer of a lazy copy link has not run when
\* the chain is built, runs at most once, only after the alloc link's
\* sub-future completed, and before the copy link's sub-future is polled.
C5_LazyDeferral ==
    \A i \in Ids :
        (IsChain(fut[i]) /\ fut[i].lazy) =>
            /\ Cardinality(Pos(fut[i], "init", "copy")) <= 1
            /\ fut[i].polls = 0 => Pos(fut[i], "init", "copy") = {}
            /\ Before(Pos(fut[i], FUTURE_STATE_COMPLETE, "alloc"),
                      Pos(fut[i], "init", "copy"))
            /\ Pos(fut[i], "init", "copy") # {} =>
                   fut[i].alloc.state = FUTURE_STATE_COMPLETE
            /\ Before(Pos(fut[i], "init", "copy"),
                      Pos(fut[i], "poll", "copy") \cup Pos(fut[i], "start", "copy"))

\* a lazy chain whose initializer has run and whose copy link was polled in
\* more than one poll of the chain
C5_Witness ==
    \E i \in Ids :
        /\ IsChain(fut[i]) /\ fut[i].lazy
        /\ Pos(fut[i], "init", "copy") # {}
        /\ Cardinality(Pos(fut[i], "poll", "copy")) >= 2

\* C6 (chain data threading): the destination the copy link's sub-future holds
\* when it is started is the pointer the alloc link produced, in the eager and
\* in the lazy chain.
C6_ChainDataThreading ==
    \A i \in Ids :
        IsChain(fut[i]) =>
            \A k \in Pos(fut[i], "start", "copy") :
                /\ fut[i].alloc.ptr # NULL
                /\ fut[i].log[k].val = fut[i].alloc.ptr
                /\ fut[i].job.dest = fut[i].alloc.ptr

\* an eager and a lazy chain, both with their copy link started
C6_Witness ==
    \E i, j \in Ids :
        /\ IsChain(fut[i]) /\ ~fut[i].lazy /\ Pos(fut[i], "start", "copy") # {}
        /\ IsChain(fut[j]) /\ fut[j].lazy /\ Pos(fut[j], "start", "copy") # {}

\* strcmp(a, b) = 0: the same bytes up to and including the terminator
SameString(m, a, b) ==
    /\ a \in DOMAIN m /\ b \in DOMAIN m
    /\ strlen(m, a) = strlen(m, b)
    /\ strlen(m, a) < Len(m[a]) /\ strlen(m, b) < Len(m[b])
    /\ \A k \in 1..(strlen(m, a) + 1) : m[a][k] = m[b][k]

\* the Output a finished strdup chain must have
StrdupResult(o) ==
    /\ o.out.ptr = o.alloc.ptr
    /\ o.out.ptr \in heap
    /\ SameString(mem, o.out.ptr, SrcAddr)
    /\ o.out.length = strlen(mem, SrcAddr) + 1

\* C7 (eager/lazy equivalence): an eager and a lazy strdup chain over the same
\* source, both COMPLETE, have the same Output: each one's pointer is the
\* buffer its own alloc step produced, holding the source string, and both
\* lengths are strlen(source) + 1.
C7_EagerLazyEquivalence ==
    \A i, j \in Ids :
        ( /\ IsChain(fut[i]) /\ ~fut[i].lazy
          /\ IsChain(fut[j]) /\ fut[j].lazy
          /\ fut[i].state = FUTURE_STATE_COMPLETE
          /\ fut[j].state = FUTURE_STATE_COMPLETE ) =>
            /\ StrdupResult(fut[i])
            /\ StrdupResult(fut[j])
            /\ fut[i].out.length = fut[j].out.length
            /\ SameString(mem, fut[i].out.ptr, fut[j].out.ptr)

\* both chains COMPLETE over the same descriptor, the source not empty
C7_Witness ==
    \E i, j \in Ids :
        /\ IsChain(fut[i]) /\ ~fut[i].lazy
        /\ IsChain(fut[j]) /\ fut[j].lazy
        /\ fut[i].state = FUTURE_STATE_COMPLETE
        /\ fut[j].state = FUTURE_STATE_COMPLETE
        /\ IsAsync(fut[i]) = IsAsync(fut[j])
        /\ strlen(mem, SrcAddr) > 0

\* the generic flag sets made only of defined bits, and their documented
\* translation
DefinedFlagSets == {0, MINIASYNC_DML_F_MEM_DURABLE}
Documented(flags) ==
    IF flags = MINIASYNC_DML_F_MEM_DURABLE THEN DML_FLAG_DST1_DURABLE ELSE 0

\* C8 (flag translation): whenever a start call has translated a future's
\* flags, a flag set of defined bits has given exactly its documented backend
\* bits (and the job carries them next to DML_FLAG_COPY_ONLY); any other flag
\* set has taken the fatal path: no value, no job, the process has ended.
C8_FlagTranslation ==
    \A i \in Ids :
        fut[i].tflags.called =>
            IF fut[i].copy.flags \in DefinedFlagSets
            THEN /\ ~fut[i].tflags.fatal
                 /\ fut[i].tflags.val = Documented(fut[i].copy.flags)
                 /\ fut[i].job.flags =
                        DML_FLAG_COPY_ONLY + Documented(fut[i].copy.flags)
            ELSE /\ fut[i].tflags.fatal
                 /\ aborted
                 /\ fut[i].job = NoJob

\* the durable bit has been translated
C8_Witness ==
    \E i \in Ids :
        /\ fut[i].tflags.called
        /\ fut[i].copy.flags = MINIASYNC_DML_F_MEM_DURABLE
        /\ fut[i].tflags.val = DML_FLAG_DST1_DURABLE

\* C9 (chain completion): between polls a chain is COMPLETE exactly when its
\* last link's sub-future (the copy) is, and a poll that returned while a link
\* was not COMPLETE returned RUNNING.
C9_ChainCompletion ==
    \A i \in Ids :
        IsChain(fut[i]) =>
            /\ fut[i].state = FUTURE_STATE_COMPLETE <=>
                   fut[i].copy.state = FUTURE_STATE_COMPLETE
            /\ ( /\ fut[i].polls > 0
                 /\ fut[i].lastRet # "fatal"
                 /\ \/ fut[i].alloc.state # FUTURE_STATE_COMPLETE
                    \/ fut[i].copy.state # FUTURE_STATE_COMPLETE ) =>
                   fut[i].lastRet = FUTURE_STATE_RUNNING

\* one chain RUNNING with its alloc link done, another chain COMPLETE
C9_Witness ==
    \E i, j \in Ids :
        /\ IsChain(fut[i]) /\ fut[i].lastRet = FUTURE_STATE_RUNNING
        /\ fut[i].alloc.state = FUTURE_STATE_COMPLETE
        /\ IsChain(fut[j]) /\ fut[j].state = FUTURE_STATE_COMPLETE

\* C10 (descriptor substitutability): two operation futures with the same
\* input, one over each descriptor, both COMPLETE, have the same Output, the
\* destination, and have moved the same bytes; two chains of the same build,
\* one over each descriptor, both COMPLETE, have the same Output.
C10_DescriptorSubstitutability ==
    \A i, j \in Ids :
        ( /\ ~IsAsync(fut[i]) /\ IsAsync(fut[j])
          /\ fut[i].kind = fut[j].kind /\ fut[i].lazy = fut[j].lazy
          /\ TopState(fut[i]) = FUTURE_STATE_COMPLETE
          /\ TopState(fut[j]) = FUTURE_STATE_COMPLETE ) =>
            IF fut[i].kind = "op"
            THEN /\ fut[i].copy.out = fut[j].copy.out
                 /\ fut[i].copy.out = fut[i].copy.dest
                 /\ SameString(mem, fut[i].copy.out, SrcAddr)
                 /\ fut[i].copy.state = fut[j].copy.state
            ELSE /\ StrdupResult(fut[i])
                 /\ StrdupResult(fut[j])
                 /\ fut[i].out.length = fut[j].out.length
                 /\ fut[i].copy.state = fut[j].copy.state

\* a blocking and an asynchronous operation future, both COMPLETE
C10_Witness ==
    \E i, j \in Ids :
        /\ fut[i].kind = "op" /\ ~IsAsync(fut[i])
        /\ fut[j].kind = "op" /\ IsAsync(fut[j])
        /\ fut[i].copy.state = FUTURE_STATE_COMPLETE
        /\ fut[j].copy.state = FUTURE_STATE_COMPLETE

\* the last check of a future, if it has made one
LastCheck(o) == o.checks[Len(o.checks)]
SawCorrupted(o) ==
    o.checks # <<>> /\ LastCheck(o).st = DML_STATUS_JOB_CORRUPTED

\* C11 (fatal on corruption): a check of an asynchronous future to which the
\* engine reports a corrupted job does not return: the process ends in that
\* check, with no RUNNING and no COMPLETE as its result, the job not released
\* and the future's state as it was; and as long as the process lives, every
\* poll result a caller has seen is RUNNING or COMPLETE.
C11_FatalOnCorruption ==
    [][\A i \in Ids :
         /\ (fut'[i].checks # fut[i].checks /\ SawCorrupted(fut'[i])) =>
              /\ aborted'
              /\ LastCheck(fut'[i]).ret \notin
                     {FUTURE_STATE_RUNNING, FUTURE_STATE_COMPLETE}
              /\ fut'[i].lastRet \notin
                     {FUTURE_STATE_RUNNING, FUTURE_STATE_COMPLETE}
              /\ fut'[i].rels = fut[i].rels
              /\ fut'[i].job = fut[i].job
              /\ fut'[i].copy.state = fut[i].copy.state
              /\ TopState(fut'[i]) = TopState(fut[i])
         /\ (~aborted' /\ fut'[i].polls > 0) =>
              fut'[i].lastRet \in {FUTURE_STATE_RUNNING, FUTURE_STATE_COMPLETE}
         /\ (~aborted' /\ fut'[i].checks # <<>>) =>
              LastCheck(fut'[i]).ret \in
                  {FUTURE_STATE_RUNNING, FUTURE_STATE_COMPLETE}]_vars

\* an asynchronous future, started by an earlier poll, whose check met a job
\* the engine had corrupted in between
C11_Witness ==
    /\ aborted
    /\ \E i \in Ids :
         /\ IsAsync(fut[i])
         /\ SawCorrupted(fut[i])
         /\ fut[i].job.live
         /\ fut[i].job.status = "corrupted"
         /\ fut[i].copy.state = FUTURE_STATE_RUNNING
         /\ fut[i].polls >= 2

\* the checks of o made after one of its checks had returned COMPLETE
AfterComplete(o) ==
    {k \in 1..Len(o.checks) :
        \E j \in 1..(k - 1) : o.checks[j].ret = FUTURE_STATE_COMPLETE}

\* C12 (guarded check), as claimed: a check of an asynchronous future made
\* after a check of it has returned COMPLETE does not ask the engine about
\* the job, releases nothing (one release in all) and returns COMPLETE.
C12_GuardedCheck ==
    \A i \in Ids :
        IsAsync(fut[i]) =>
            /\ \A k \in AfterComplete(fut[i]) :
                   /\ fut[i].checks[k].st \notin DmlStatuses
                   /\ fut[i].checks[k].ret = FUTURE_STATE_COMPLETE
            /\ AfterComplete(fut[i]) # {} => Len(fut[i].rels) = 1

\* C13 (handle cleared on completion), as claimed: whenever an asynchronous
\* future is COMPLETE its job has been released and the handle slot data.extra
\* is empty.
C13_HandleCleared ==
    \A i \in Ids :
        (IsAsync(fut[i]) /\ fut[i].copy.state = FUTURE_STATE_COMPLETE) =>
            /\ ~fut[i].job.live
            /\ fut[i].rels # <<>>
            /\ fut[i].copy.extra = NULL

\* the links of a strdup chain
Links == {strdup_data[k].name : k \in 1..Len(strdup_data)}

\* C14 (mapping exactly once): in a chain's history, whatever has been polled
\* and however often after COMPLETE, the mapping function of a link has been
\* invoked exactly once if the link's sub-future is COMPLETE, after it became
\* so, and not at all if it is not.
C14_MappingExactlyOnce ==
    \A i \in Ids :
        IsChain(fut[i]) =>
            \A name \in Links :
                /\ Cardinality(Pos(fut[i], "map", name)) =
                       IF SubState(fut[i], name) = FUTURE_STATE_COMPLETE
                       THEN 1 ELSE 0
                /\ Before(Pos(fut[i], FUTURE_STATE_COMPLETE, name),
                          Pos(fut[i], "map", name))

\* an asynchronous chain that took three polls to complete and was polled
\* again afterwards, and a chain whose copy link is still running
C14_Witness ==
    /\ \E i \in Ids :
         /\ IsChain(fut[i]) /\ IsAsync(fut[i])
         /\ fut[i].state = FUTURE_STATE_COMPLETE
         /\ fut[i].doneAt = 3
         /\ fut[i].polls > fut[i].doneAt
         /\ \A name \in Links : Cardinality(Pos(fut[i], "map", name)) = 1
    /\ \E i \in Ids :
         /\ IsChain(fut[i])
         /\ fut[i].copy.state = FUTURE_STATE_RUNNING
         /\ Pos(fut[i], "map", "alloc") # {}
         /\ Pos(fut[i], "map", "copy") = {}

\* what happened to a future, in order: the events and the links they are about
Events(o) == [k \in 1..Len(o.log) |-> <<o.log[k].ev, o.log[k].link>>]

\* one poll that takes a strdup chain through both links
WholeRun(lazy) ==
    <<  <<"poll", "alloc">>, <<FUTURE_STATE_COMPLETE, "alloc">>,
        <<"map", "alloc">> >>
    \o (IF lazy THEN << <<"init", "copy">> >> ELSE <<>>)
    \o <<  <<"poll", "copy">>, <<"start", "copy">>,
           <<FUTURE_STATE_COMPLETE, "copy">>, <<"map", "copy">> >>

\* C15 (single-poll completion): a strdup chain over the blocking descriptor
\* that has been polled at all is COMPLETE, and was so when its first poll
\* returned: that poll returned COMPLETE after it polled the alloc link, ran
\* its mapping, ran the lazy initializer if there is one, polled and started
\* the copy link and ran its mapping, in this order; the Output is the copy
\* of the string.  Later polls added nothing.
C15_SinglePollCompletion ==
    \A i \in Ids :
        (IsChain(fut[i]) /\ ~IsAsync(fut[i]) /\ fut[i].polls >= 1) =>
            /\ fut[i].state = FUTURE_STATE_COMPLETE
            /\ fut[i].doneAt = 1
            /\ fut[i].lastRet = FUTURE_STATE_COMPLETE
            /\ Events(fut[i]) = WholeRun(fut[i].lazy)
            /\ StrdupResult(fut[i])

\* an eager and a lazy blocking chain, each polled exactly once
C15_Witness ==
    \E i, j \in Ids :
        /\ IsChain(fut[i]) /\ ~IsAsync(fut[i]) /\ ~fut[i].lazy
        /\ IsChain(fut[j]) /\ ~IsAsync(fut[j]) /\ fut[j].lazy
        /\ fut[i].polls = 1 /\ fut[j].polls = 1
        /\ fut[i].state = FUTURE_STATE_COMPLETE
        /\ fut[j].state = FUTURE_STATE_COMPLETE

\* the last thing that happened to a future
LastEvent(o) == Events(o)[Len(o.log)]

\* C16 (chain Output frame): a step changes a chain's Output only if it ends
\* with the mapping of the last link (the copy) and leaves the chain COMPLETE;
\* as long as that mapping has not run, in particular after a poll that
\* returned RUNNING, after the alloc link's mapping and after the lazy
\* initializer, the Output is what it was when the chain was built.
C16_ChainOutputFrame ==
    [][\A i \in Ids :
         IsChain(fut[i]) =>
             /\ fut'[i].out # fut[i].out =>
                  /\ Len(fut'[i].log) > Len(fut[i].log)
                  /\ LastEvent(fut'[i]) = <<"map", "copy">>
                  /\ Pos(fut[i], "map", "copy") = {}
                  /\ fut'[i].state = FUTURE_STATE_COMPLETE
             /\ ( \/ Pos(fut'[i], "map", "copy") = {}
                  \/ fut'[i].lastRet = FUTURE_STATE_RUNNING ) =>
                  fut'[i].out = ZeroFut.out]_vars

\* a lazy chain that returned RUNNING twice, its alloc mapping and its
\* initializer done, and a chain whose Output has been written
C16_Witness ==
    /\ \E i \in Ids :
         /\ IsChain(fut[i]) /\ fut[i].lazy
         /\ fut[i].polls = 2 /\ fut[i].lastRet = FUTURE_STATE_RUNNING
         /\ Pos(fut[i], "map", "alloc") # {}
         /\ Pos(fut[i], "init", "copy") # {}
         /\ fut[i].out = ZeroFut.out
    /\ \E i \in Ids :
         /\ IsChain(fut[i])
         /\ fut[i].out # ZeroFut.out
         /\ LastEvent(fut[i]) = <<"map", "copy">>

\* C17 (run-to-completion start): once the start function of a future over the
\* blocking descriptor has returned, the first call of its check function,
\* made in the same poll, has returned COMPLETE and the future is COMPLETE;
\* the job it created has been executed and released exactly once, inside
\* the start call (before any check), and the handle slot data.extra is empty.
C17_RunToCompletionStart ==
    \A i \in Ids :
        ( /\ ~IsAsync(fut[i])
          /\ Pos(fut[i], "start", "copy") # {}
          /\ fut[i].checks # <<>> ) =>
            /\ fut[i].checks[1].ret = FUTURE_STATE_COMPLETE
            /\ fut[i].checks[1].state = FUTURE_STATE_IDLE
            /\ fut[i].copy.state = FUTURE_STATE_COMPLETE
            /\ fut[i].job.status = "done"
            /\ ~fut[i].job.live
            /\ Len(fut[i].rels) = 1
            /\ fut[i].rels[1].at = 0
            /\ fut[i].copy.extra = NULL
            /\ \A k \in 1..Len(fut[i].checks) : ~fut[i].checks[k].live

\* a blocking operation future and a blocking chain, both started
C17_Witness ==
    \E i, j \in Ids :
        /\ fut[i].kind = "op" /\ ~IsAsync(fut[i])
        /\ IsChain(fut[j]) /\ ~IsAsync(fut[j])
        /\ Pos(fut[i], "start", "copy") # {} /\ fut[i].checks # <<>>
        /\ Pos(fut[j], "start", "copy") # {} /\ fut[j].checks # <<>>
        /\ fut[i].polls = 1

\* the input parameters of an operation future
Inputs(c) == <<c.dest, c.src, c.n, c.flags>>
\* its context without Output and without the handle slot (and without the
\* state, which future_poll keeps, not the start or the check function)
Rest(c) == [c EXCEPT !.out = NULL, !.extra = NULL, !.state = FUTURE_STATE_IDLE]
\* an operation future by itself, or a chain's copy link once it is started:
\* from here on only its start and check functions act on its context
OnlyStartAndCheck(o) == o.kind = "op" \/ o.copy.state # FUTURE_STATE_IDLE

\* C18 (input frame), as claimed: starting and checking an operation future
\* changes nothing in its context but Output and the handle slot.
C18_InputFrame ==
    [][\A i \in Ids :
         OnlyStartAndCheck(fut[i]) => Rest(fut'[i].copy) = Rest(fut[i].copy)]_vars

\* C18 as amended: starting and checking an operation future leaves dest, src,
\* n and flags (and the vdm) as they were, and the job is made from exactly
\* these; besides Output and the handle slot the only thing written in the
\* context is the completion flag data.complete, which the start function of
\* the blocking descriptor sets, once, from 0 to 1.
C18_InputFrameAmended ==
    [][\A i \in Ids :
         /\ OnlyStartAndCheck(fut[i]) =>
              /\ Inputs(fut'[i].copy) = Inputs(fut[i].copy)
              /\ fut'[i].copy.vdm = fut[i].copy.vdm
              /\ Rest(fut'[i].copy) =
                     [Rest(fut[i].copy) EXCEPT !.complete = fut'[i].copy.complete]
              /\ fut'[i].copy.complete # fut[i].copy.complete =>
                     /\ ~IsAsync(fut[i])
                     /\ fut[i].copy.state = FUTURE_STATE_IDLE
                     /\ fut[i].copy.complete = 0
                     /\ fut'[i].copy.complete = 1
         /\ Pos(fut'[i], "start", "copy") # {} =>
              /\ fut'[i].job.dest = fut'[i].copy.dest
              /\ fut'[i].job.src = fut'[i].copy.src
              /\ fut'[i].job.n = fut'[i].copy.n]_vars

\* an asynchronous operation with the durable flag, COMPLETE after three
\* polls, next to a blocking operation whose completion flag is set
C18_Witness ==
    \E i, j \in Ids :
        /\ fut[i].kind = "op" /\ IsAsync(fut[i])
        /\ fut[i].copy.flags = MINIASYNC_DML_F_MEM_DURABLE
        /\ fut[i].copy.state = FUTURE_STATE_COMPLETE
        /\ fut[i].doneAt = 3
        /\ fut[i].copy.complete = 0
        /\ fut[j].kind = "op" /\ ~IsAsync(fut[j])
        /\ fut[j].copy.state = FUTURE_STATE_COMPLETE
        /\ fut[j].copy.complete = 1

\* C19 (no use after release): over any sequence of polls of an asynchronous
\* future, by itself or as the copy link of a chain, every check that asked
\* the engine found in the handle slot a job that was allocated and not yet
\* released; and while the future is RUNNING the handle slot holds its job,
\* which is allocated, has been submitted and has not been released.
C19_NoUseAfterRelease ==
    \A i \in Ids :
        IsAsync(fut[i]) =>
            /\ \A k \in 1..Len(fut[i].checks) :
                   /\ fut[i].checks[k].st \in DmlStatuses
                   /\ fut[i].checks[k].live
            /\ fut[i].copy.state = FUTURE_STATE_RUNNING =>
                   /\ fut[i].copy.extra # NULL
                   /\ fut[i].job.live
                   /\ fut[i].job.status \in {"submitted", "done", "corrupted"}
                   /\ fut[i].rels = <<>>

\* an asynchronous operation and an asynchronous chain: one still RUNNING
\* after two checks, the other COMPLETE, its job released, and polled again
C19_Witness ==
    \E i, j \in Ids :
        /\ IsAsync(fut[i]) /\ IsAsync(fut[j])
        /\ fut[i].kind # fut[j].kind
        /\ fut[i].copy.state = FUTURE_STATE_RUNNING
        /\ Len(fut[i].checks) >= 2
        /\ fut[j].copy.state = FUTURE_STATE_COMPLETE
        /\ ~fut[j].job.live
        /\ fut[j].polls > fut[j].doneAt

\* no future was built with a flag bit the translation rejects
FlagsAccepted == \A j \in Ids : fut[j].copy.flags \in DefinedFlagSets

\* future i is COMPLETE and the one job it submitted has been released
Finished(i) ==
    /\ TopState(fut[i]) = FUTURE_STATE_COMPLETE
    /\ fut[i].copy.state = FUTURE_STATE_COMPLETE
    /\ fut[i].job.status = "done"
    /\ ~fut[i].job.live
    /\ Len(fut[i].rels) = 1

\* C20 (eventual completion): with a caller that keeps polling and an engine
\* that finishes every submitted job, every asynchronous future, operation or
\* chain, is eventually COMPLETE with its job released, and stays so; and a
\* job of an asynchronous future is released only in a step that polls the
\* future and inside the check call of that poll, so without a poll the job
\* stays as it is.
C20_EventualCompletion ==
    /\ \A i \in Ids :
         (FlagsAccepted /\ IsAsync(fut[i])) ~> [](Finished(i))
    /\ [][\A i \in Ids :
            IsAsync(fut[i]) =>
                /\ fut'[i].rels # fut[i].rels =>
                     /\ fut'[i].polls = fut[i].polls + 1
                     /\ Len(fut'[i].checks) = Len(fut[i].checks) + 1
                     /\ Len(fut'[i].rels) = Len(fut[i].rels) + 1
                     /\ fut'[i].rels[Len(fut'[i].rels)].at = Len(fut'[i].checks)
                /\ fut'[i].polls = fut[i].polls =>
                     /\ fut'[i].rels = fut[i].rels
                     /\ fut'[i].job.live = fut[i].job.live]_vars

\* an asynchronous operation and an asynchronous lazy chain, each finished
\* by its third poll
C20_Witness ==
    \E i, j \in Ids :
        /\ fut[i].kind = "op" /\ IsAsync(fut[i])
        /\ IsChain(fut[j]) /\ fut[j].lazy /\ IsAsync(fut[j])
        /\ Finished(i) /\ Finished(j)
        /\ fut[i].doneAt = 3 /\ fut[j].doneAt = 3

====
